---- MODULE Spec2Model ----
(***************************************************************************)
(* Model of the Voice Live session bridge (voice_agent.py, tools.py and    *)
(* the audio_ws handler of server.py).                                     *)
(*                                                                         *)
(* Four asyncio tasks share one event loop: the audio_ws handler, the task *)
(* running VoiceLiveAgent.run(), and the two tasks run() creates           *)
(* (_event_loop, the Event Dispatcher; _audio_sender).  A task runs        *)
(* without interruption from one await to the next, so every action below  *)
(* is one such step: it starts where an await completes (or is cancelled)  *)
(* and ends where the task reaches its next await.  A call that writes to  *)
(* a transport is recorded in the step that makes the call; the step that  *)
(* follows is the completion of the await (success, an exception, or the   *)
(* delivery of a cancellation).                                            *)
(*                                                                         *)
(* Task.cancel() marks the task; the CancelledError is thrown into the     *)
(* task at its current await on its next step, in place of that await's    *)
(* result.  A task cancelled before its first step never runs its body.    *)
(*                                                                         *)
(* An await made through asyncio.wait_for (the queue get of _audio_sender, *)
(* the correlation waits of _wait_for_event) is the exception: wait_for    *)
(* runs the awaited coroutine in an inner task and, when the               *)
(* CancelledError reaches it after the inner task has finished, returns    *)
(* the inner result (or raises the inner exception) instead.  The          *)
(* cancellation is then consumed and the task goes on.  So with a cancel   *)
(* pending at such an await both outcomes are possible: the cancellation   *)
(* is delivered (the inner task had not finished), or the step that        *)
(* completes the wait is taken and clears the mark.  A timeout never       *)
(* finishes the inner task, so a timeout with a cancel pending is a        *)
(* cancellation.                                                           *)
(***************************************************************************)
EXTENDS Integers, Sequences, FiniteSets, TLC

(***************************************************************************)
(* Bounds of the model                                                     *)
(***************************************************************************)
\* number of binary frames the client offers over the websocket
MaxFrames == 2
\* number of events the upstream connection delivers
MaxEvents == 3
\* number of calls of shutdown() on one agent
MaxShutdowns == 2

(***************************************************************************)
(* base64.b64encode(pcm_bytes).decode("ascii")     voice_agent.py:366      *)
(***************************************************************************)
B64Alphabet ==
  << "A","B","C","D","E","F","G","H","I","J","K","L","M","N","O","P",
     "Q","R","S","T","U","V","W","X","Y","Z","a","b","c","d","e","f",
     "g","h","i","j","k","l","m","n","o","p","q","r","s","t","u","v",
     "w","x","y","z","0","1","2","3","4","5","6","7","8","9","+","/" >>

B64Char(n) == B64Alphabet[n + 1]

RECURSIVE B64Encode(_)
B64Encode(bytes) ==
  IF Len(bytes) = 0 THEN << >>
  ELSE IF Len(bytes) = 1 THEN
    << B64Char(bytes[1] \div 4), B64Char((bytes[1] % 4) * 16), "=", "=" >>
  ELSE IF Len(bytes) = 2 THEN
    << B64Char(bytes[1] \div 4),
       B64Char((bytes[1] % 4) * 16 + bytes[2] \div 16),
       B64Char((bytes[2] % 16) * 4), "=" >>
  ELSE
    << B64Char(bytes[1] \div 4),
       B64Char((bytes[1] % 4) * 16 + bytes[2] \div 16),
       B64Char((bytes[2] % 16) * 4 + bytes[3] \div 64),
       B64Char(bytes[3] % 64) >>
    \o B64Encode(SubSeq(bytes, 4, Len(bytes)))

\* raw PCM16 payloads the client sends (byte sequences)
PcmInputs == { <<77, 97, 110>>, <<77, 97>>, <<77>> }

(***************************************************************************)
(* tools.py: the local tool handlers and the handler registry              *)
(***************************************************************************)
\* A parsed JSON value is [kind |-> "dict", d |-> record of string fields]
\* or [kind |-> "list"].  The raw "arguments" payload of an arguments-done
\* event is a JSON text, or None (kind "none").
Dict(d)  == [kind |-> "dict", d |-> d]
EmptyMap == [k \in {} |-> "-"]

ArgsMsft == "{\"symbol\":\"msft\"}"
ArgsBear == "{\"topic\":\"Bear\"}"
ArgsList == "[1]"
ArgsBad  == "{\"symbol\":"
ArgsNone == "None"
RawArgsInputs == {ArgsMsft, ArgsBear, ArgsList, ArgsBad, ArgsNone}

\* json.loads(raw_args): [ok |-> TRUE, val |-> value], or ok = FALSE when the
\* text is not valid JSON (json.JSONDecodeError).
JsonLoads(text) ==
  CASE text = ArgsMsft -> [ok |-> TRUE, val |-> Dict([symbol |-> "msft"])]
    [] text = ArgsBear -> [ok |-> TRUE, val |-> Dict([topic |-> "Bear"])]
    [] text = ArgsList -> [ok |-> TRUE, val |-> [kind |-> "list"]]
    [] OTHER           -> [ok |-> FALSE, val |-> [kind |-> "none"]]

\* arguments = json.loads(raw_args) if isinstance(raw_args, str)
\*             else (raw_args or {})
ParseArgumentsLenient(raw) ==
  IF raw = ArgsNone \/ ~JsonLoads(raw).ok
    THEN [ok |-> TRUE, val |-> Dict(EmptyMap)]
    ELSE JsonLoads(raw)

ParseArguments(raw) ==
  IF raw = ArgsNone THEN [ok |-> TRUE, val |-> Dict(EmptyMap)]
                    ELSE JsonLoads(raw)

\* dict.get(key, default)
DictGet(d, key, default) == IF key \in DOMAIN d THEN d[key] ELSE default

\* str.upper() and str.lower() on the strings that occur
Upper(s) == CASE s = "msft" -> "MSFT" [] s = "Bear" -> "BEAR" [] OTHER -> s
Lower(s) == CASE s = "Bear" -> "bear" [] s = "MSFT" -> "msft" [] OTHER -> s

\* fake_prices.get(symbol, {"price": 100.00, "change": "0.0%"})
FakePrices(symbol) ==
  CASE symbol = "MSFT"  -> [price |-> "425.3", change |-> "+1.2%"]
    [] symbol = "AAPL"  -> [price |-> "198.5", change |-> "-0.4%"]
    [] symbol = "GOOGL" -> [price |-> "178.2", change |-> "+0.8%"]
    [] symbol = "AMZN"  -> [price |-> "186.9", change |-> "+1.5%"]
    [] OTHER            -> [price |-> "100.0", change |-> "0.0%"]

\* A handler call yields a set of possible outcomes, each either
\* [raised |-> TRUE] or [raised |-> FALSE, json |-> the JSON text returned],
\* a JSON object being the sequence of its <<key, value>> pairs.
Raised == [raised |-> TRUE, json |-> << >>]
Returned(json) == [raised |-> FALSE, json |-> json]

\* get_stock_price(arguments): arguments.get raises on a non-dict
get_stock_price(arguments) ==
  IF arguments.kind # "dict" THEN {Raised}
  ELSE LET symbol == Upper(DictGet(arguments.d, "symbol", "UNKNOWN"))
           data   == FakePrices(symbol)
       IN  { Returned(<< <<"symbol", symbol>>, <<"price", data.price>>,
                         <<"change", data.change>> >>) }

\* the jokes of tell_joke, by position in its list
NumJokes == 8
Jokes == 1..NumJokes
\* the jokes whose setup or punchline contains the (lower-cased) topic
JokesMentioning(topic) ==
  CASE topic = "bear" -> {5}
    [] topic = "msft" -> {}
    [] OTHER          -> {}

\* tell_joke(arguments): random.choice over the filtered list, or over all
\* jokes when the topic is empty or matches none
tell_joke(arguments) ==
  IF arguments.kind # "dict" THEN {Raised}
  ELSE LET topic    == Lower(DictGet(arguments.d, "topic", ""))
           filtered == JokesMentioning(topic)
           pool     == IF topic # "" /\ filtered # {} THEN filtered ELSE Jokes
       IN  { Returned(<< <<"setup", "setup " \o ToString(j)>>,
                         <<"punchline", "punchline " \o ToString(j)>> >>)
             : j \in pool }

\* TOOL_HANDLERS
ToolNames == {"get_stock_price", "tell_joke"}
HandlerOutcomes(name, arguments) ==
  IF name = "get_stock_price" THEN get_stock_price(arguments)
                              ELSE tell_joke(arguments)

\* json.dumps({"error": f"Unknown tool: {function_name}"})
UnknownToolJson(name) == << <<"error", "Unknown tool: " \o name>> >>

(***************************************************************************)
(* Frames and messages                                                     *)
(***************************************************************************)
\* a binary frame received from the client; id is its position in the
\* sequence of frames the client offered
Frame(id, pcm) == [id |-> id, pcm |-> pcm]

\* json.dumps(data) sent as a text frame: the object's <<key, value>> pairs
JsonDumps(data) == [frame |-> "text", body |-> data]
\* client_ws.send(event.delta): a binary frame
Binary(delta)   == [frame |-> "binary", body |-> << <<"bytes", delta>> >>]

CallStateEnded == JsonDumps(<< <<"type", "call_state">>, <<"state", "ended">> >>)
SpeechStarted  == JsonDumps(<< <<"type", "speech_started">> >>)
Transcript(role, text) ==
  JsonDumps(<< <<"type", "transcript">>, <<"role", role>>, <<"text", text>> >>)
McpStatus(text) == JsonDumps(<< <<"type", "mcp_status">>, <<"text", text>> >>)

\* outbound operations on the upstream connection, and handler invocations
SessionUpdate   == [op |-> "session.update"]
AudioAppend(frame) ==
  [op |-> "input_audio_buffer.append", id |-> frame.id, audio |-> B64Encode(frame.pcm)]
ApprovalResponse(reqId, approve) ==
  [op |-> "item.create", item |-> "mcp_approval_response",
   approval_request_id |-> reqId, approve |-> approve]
FunctionCallOutput(callId, previousItemId, output) ==
  [op |-> "item.create", item |-> "function_call_output", call_id |-> callId,
   previous_item_id |-> previousItemId, output |-> output]
ResponseCreate  == [op |-> "response.create"]
HandlerCall(name, arguments) ==
  [op |-> "handler", name |-> name, arguments |-> arguments]

(***************************************************************************)
(* State                                                                   *)
(***************************************************************************)
VARIABLES
  running,      \* self._running
  queue,        \* self._audio_queue, oldest frame first
  runPc,        \* where the task running run() is
  runCancel,    \* agent_task.cancel() was called and is not yet delivered
  dispPc,       \* where the _event_loop task is ("none": not created)
  dispCancel,   \* its cancel() was called and is not yet delivered
  call,         \* locals of _handle_conversation_item during a tool call
                \* (mark: the length of outLog when the call began)
  sendPc,       \* where the _audio_sender task is ("none": not created)
  sendCancel,   \* its cancel() was called and is not yet delivered
  fetched,      \* the result of the inner task of the sender's wait_for:
                \* the frame Queue.get() has returned and the sender has
                \* not yet resumed with (at most one)
  expired,      \* the 1.0 s timer of the sender's wait_for has fired and
                \* the sender has not yet resumed
  srvPc,        \* the audio_ws handler: "serving" or "closed"
  shutdowns,    \* number of calls of shutdown() made so far
  reads,        \* reads pending on the upstream connection: "loop" (the
                \* async for of _event_loop), "wait" (conn.recv() of
                \* _wait_for_event)
  outLog,       \* calls run() and _event_loop made on the upstream
                \* connection and on tool handlers, in call order
  audioOut,     \* input_audio_buffer.append calls of _audio_sender, in order
  clientLog,    \* frames handed to client_ws.send, in call order
  offered,      \* number of binary frames received from the client
  accepted,     \* ids of the frames offered while _running was true
  nEvents,      \* number of events the upstream connection has delivered
  lastStep      \* the last step of the _event_loop task

vars == << running, queue, runPc, runCancel, dispPc, dispCancel, call,
           sendPc, sendCancel, srvPc, outLog, audioOut, clientLog, offered,
           accepted, nEvents, lastStep, shutdowns, reads, fetched, expired >>

agentVars  == << running, runPc, runCancel >>
dispVars   == << dispPc, dispCancel, call, nEvents, lastStep, reads >>
senderVars == << sendPc, sendCancel, fetched, expired >>
audioVars  == << queue, offered, accepted, audioOut >>

NoCall == [name |-> "-", call_id |-> "-", item_id |-> "-",
           arguments |-> [kind |-> "none"], mark |-> 0]
NoEv   == [type |-> "-", item |-> "-", name |-> "-", id |-> "-", arg |-> "-"]
NoStep == [kind |-> "none", ev |-> NoEv]

\* a task that exists and has not finished
Live(pc)     == pc \notin {"none", "done", "cancelled"}
\* asyncio.Task.done()
Finished(pc) == pc \in {"done", "cancelled"}
\* Task.cancel(): marks a task that is not done
CancelAlways(pc, flag) == TRUE

Cancel(pc, flag) == IF Live(pc) THEN TRUE ELSE flag

Init ==
  /\ running = FALSE
  /\ queue = << >>
  /\ runPc = "init"
  /\ runCancel = FALSE
  /\ dispPc = "none"
  /\ dispCancel = FALSE
  /\ call = NoCall
  /\ sendPc = "none"
  /\ sendCancel = FALSE
  /\ fetched = << >>
  /\ expired = FALSE
  /\ srvPc = "serving"
  /\ shutdowns = 0
  /\ reads = {}
  /\ outLog = << >>
  /\ audioOut = << >>
  /\ clientLog = << >>
  /\ offered = 0
  /\ accepted = << >>
  /\ nEvents = 0
  /\ lastStep = NoStep

(***************************************************************************)
(* VoiceLiveAgent.run                                                      *)
(***************************************************************************)
\* finally: self._running = False; await self._send_json(call_state ended)
FinallyNoEvent ==
  /\ running' = FALSE
  /\ runPc' = "send_ended"
  /\ UNCHANGED clientLog

Finally ==
  /\ running' = FALSE
  /\ clientLog' = Append(clientLog, CallStateEnded)
  /\ runPc' = "send_ended"

\* first step: self._running = True, then await connect(...)
RunStart ==
  /\ runPc = "init" /\ ~runCancel
  /\ running' = TRUE
  /\ runPc' = "connect"
  /\ UNCHANGED << runCancel, queue, dispVars, senderVars, srvPc, shutdowns, outLog,
                  clientLog, offered, accepted,
                  audioOut >>

\* the connection opens; _setup_session calls conn.session.update
RunConnected ==
  /\ runPc = "connect" /\ ~runCancel
  /\ outLog' = Append(outLog, SessionUpdate)
  /\ runPc' = "setup"
  /\ UNCHANGED << running, runCancel, queue, dispVars, senderVars, srvPc, shutdowns,
                  clientLog, offered, accepted,
                  audioOut >>

\* connect() raises: except Exception, then finally
RunConnectFails ==
  /\ runPc = "connect" /\ ~runCancel
  /\ Finally
  /\ UNCHANGED << runCancel, queue, dispVars, senderVars, srvPc, shutdowns, outLog,
                  offered, accepted,
                  audioOut >>

\* session.update returns: both tasks are created, run() awaits asyncio.wait
RunSetupDone ==
  /\ runPc = "setup" /\ ~runCancel
  /\ dispPc' = "start"
  /\ sendPc' = "start"
  /\ runPc' = "wait"
  /\ UNCHANGED << running, runCancel, queue, dispCancel, call, nEvents,
                  lastStep, sendCancel, fetched, expired, srvPc, shutdowns, outLog,
                  clientLog, offered,
                  accepted,
                  audioOut,
                  reads >>

\* session.update raises: the async with block is left (connection close)
RunSetupFails ==
  /\ runPc = "setup" /\ ~runCancel
  /\ runPc' = "close"
  /\ UNCHANGED << running, runCancel, queue, dispVars, senderVars, srvPc, shutdowns,
                  outLog, clientLog, offered, accepted,
                  audioOut >>

\* asyncio.wait returns (FIRST_COMPLETED): cancel the pending tasks, look at
\* the finished ones, leave the async with block
RunWaitReturns ==
  /\ runPc = "wait" /\ ~runCancel
  /\ Finished(dispPc) \/ Finished(sendPc)
  /\ dispCancel' = Cancel(dispPc, dispCancel)
  /\ sendCancel' = Cancel(sendPc, sendCancel)
  /\ runPc' = "close"
  /\ UNCHANGED << running, runCancel, queue, dispPc, call, nEvents, lastStep,
                  sendPc, fetched, expired, srvPc, shutdowns, outLog, clientLog,
                  offered, accepted,
                  audioOut,
                  reads >>

\* the connection's __aexit__ returns or raises: finally
RunClosed ==
  /\ runPc = "close" /\ ~runCancel
  /\ Finally
  /\ UNCHANGED << runCancel, queue, dispVars, senderVars, srvPc, shutdowns, outLog,
                  offered, accepted,
                  audioOut >>

\* the client send of the finally block returns, or raises and is swallowed
\* by _send_json
RunEndedSent ==
  /\ runPc = "send_ended" /\ ~runCancel
  /\ runPc' = "done"
  /\ UNCHANGED << running, runCancel, queue, dispVars, senderVars, srvPc, shutdowns,
                  outLog, clientLog, offered, accepted,
                  audioOut >>

\* the CancelledError of agent_task.cancel() is thrown into run() at its
\* current await.  Before the first step the body never runs; inside the
\* async with block the connection is closed first; elsewhere the finally
\* block runs next; in the finally block's own await the task ends.
RunCancelled ==
  /\ runCancel
  /\ runCancel' = FALSE
  /\ CASE runPc = "init" ->
             runPc' = "never_ran" /\ UNCHANGED << running, clientLog >>
       [] runPc \in {"setup", "wait"} ->
             runPc' = "close" /\ UNCHANGED << running, clientLog >>
       [] runPc \in {"connect", "close"} -> Finally
       [] OTHER ->
             runPc' = "done" /\ UNCHANGED << running, clientLog >>
  /\ UNCHANGED << queue, dispVars, senderVars, srvPc, shutdowns, outLog, offered,
                  accepted,
                  audioOut >>

(***************************************************************************)
(* VoiceLiveAgent.send_audio, VoiceLiveAgent.shutdown and audio_ws         *)
(***************************************************************************)
\* send_audio: if self._running: await self._audio_queue.put(pcm_bytes)
SendAudioAlways(isRunning, q, frame) == Append(q, frame)

SendAudioWhenStopped(isRunning, q, frame) ==
  IF isRunning THEN q ELSE Append(q, frame)

SendAudio(isRunning, q, frame) == IF isRunning THEN Append(q, frame) ELSE q

\* audio_ws: ws.receive() returns a binary frame, passed to send_audio
ServerReceives ==
  /\ srvPc = "serving"
  /\ offered < MaxFrames
  /\ \E pcm \in PcmInputs :
        /\ queue' = SendAudio(running, queue, Frame(offered + 1, pcm))
        /\ accepted' = IF running THEN Append(accepted, offered + 1)
                                  ELSE accepted
  /\ offered' = offered + 1
  /\ UNCHANGED << agentVars, dispVars, senderVars, srvPc, shutdowns, outLog, audioOut,
                  clientLog >>

\* shutdown: self._running = False; cancel every task of self._tasks
Shutdown ==
  /\ running' = FALSE
  /\ dispCancel' = Cancel(dispPc, dispCancel)
  /\ sendCancel' = Cancel(sendPc, sendCancel)

\* audio_ws: ws.receive() raises (or the handler is cancelled); the finally
\* block calls agent.shutdown() and cancels agent_task if it is not done
ServerCleanupNoCancel ==
  /\ srvPc = "serving"
  /\ srvPc' = "closed"
  /\ Shutdown
  /\ shutdowns' = shutdowns + 1
  /\ UNCHANGED << runPc, runCancel, queue, dispPc, call, nEvents, lastStep,
                  sendPc, fetched, expired, outLog, clientLog, offered, accepted,
                  audioOut,
                  reads >>

ServerCleanup ==
  /\ srvPc = "serving"
  /\ srvPc' = "closed"
  /\ Shutdown
  /\ shutdowns' = shutdowns + 1
  /\ runCancel' = (runPc \notin {"done", "never_ran"})
  /\ UNCHANGED << runPc, queue, dispPc, call, nEvents, lastStep, sendPc,
                  fetched, expired,
                  outLog, clientLog, offered, accepted,
                  audioOut,
                  reads >>

\* shutdown() is called again after the handler's call (the method is public
\* and may be called any number of times)
ShutdownAgain ==
  /\ srvPc = "closed"
  /\ shutdowns < MaxShutdowns
  /\ Shutdown
  /\ shutdowns' = shutdowns + 1
  /\ UNCHANGED << runPc, runCancel, queue, dispPc, call, nEvents, lastStep,
                  sendPc, fetched, expired, srvPc, outLog, clientLog, offered,
                  accepted,
                  audioOut,
                  reads >>

(***************************************************************************)
(* VoiceLiveAgent._audio_sender                                            *)
(***************************************************************************)
\* asyncio.Queue.get(): the oldest item, removed
QueueGetNewest(q) == [item |-> q[Len(q)], rest |-> SubSeq(q, 1, Len(q) - 1)]

QueueGet(q) == [item |-> Head(q), rest |-> Tail(q)]

\* while self._running: the loop test, then the bounded wait on the queue
SenderLoop == IF running THEN "get" ELSE "done"

\* the task's first step
SenderStart ==
  /\ sendPc = "start" /\ ~sendCancel
  /\ sendPc' = SenderLoop
  /\ UNCHANGED << agentVars, dispVars, sendCancel, fetched, expired, audioVars,
                  srvPc, shutdowns, outLog, clientLog >>

\* asyncio.wait_for(self._audio_queue.get(), timeout=1.0) runs the get() in
\* an inner task.  This is the inner task's step: Queue.get() returns the
\* oldest frame, which leaves the queue; the sender itself resumes later,
\* and audio_ws, run() and the Dispatcher run in between.  The step is
\* also taken while a cancellation of the sender is pending (the inner task
\* was woken before cancel() was called), and never once the timer has
\* fired (the sender, woken first, cancels the inner task).
SenderQueueGet ==
  /\ sendPc = "get"
  /\ fetched = << >> /\ ~expired
  /\ queue # << >>
  /\ LET got == QueueGet(queue) IN
        /\ queue' = got.rest
        /\ fetched' = << got.item >>
  /\ UNCHANGED << agentVars, dispVars, sendPc, sendCancel, expired, srvPc,
                  shutdowns, outLog, clientLog, offered, accepted, audioOut >>

\* the sender resumes with the frame: it is encoded and
\* input_audio_buffer.append is called.  With a cancellation pending,
\* wait_for returns the frame its inner task has fetched (fut.done()) and
\* the cancellation is consumed.
SenderGets ==
  /\ sendPc = "get"
  /\ fetched # << >>
  /\ audioOut' = Append(audioOut, AudioAppend(fetched[1]))
  /\ fetched' = << >>
  /\ expired' = FALSE
  /\ sendPc' = "append"
  /\ sendCancel' = FALSE
  /\ UNCHANGED << agentVars, dispVars, queue, srvPc, shutdowns, outLog,
                  clientLog, offered, accepted >>

\* the timer of wait_for fires: the queue has stayed empty for 1.0 s and
\* the inner get() is still waiting
SenderTimerFires ==
  /\ sendPc = "get"
  /\ fetched = << >> /\ ~expired
  /\ queue = << >>
  /\ expired' = TRUE
  /\ UNCHANGED << agentVars, dispVars, sendPc, sendCancel, fetched, audioVars,
                  srvPc, shutdowns, outLog, clientLog >>

\* the sender resumes after the timer: wait_for cancels its inner get()
\* and raises TimeoutError, caught by the except clause around the loop.
\* Frames put since the timer fired stay in the queue.
SenderTimeout ==
  /\ sendPc = "get" /\ ~sendCancel
  /\ expired
  /\ expired' = FALSE
  /\ sendPc' = "done"
  /\ UNCHANGED << agentVars, dispVars, sendCancel, fetched, audioVars, srvPc,
                  shutdowns, outLog, clientLog >>

\* input_audio_buffer.append returns: next iteration
SenderAppended ==
  /\ sendPc = "append" /\ ~sendCancel
  /\ sendPc' = SenderLoop
  /\ UNCHANGED << agentVars, dispVars, sendCancel, fetched, expired, audioVars,
                  srvPc, shutdowns, outLog, clientLog >>

\* input_audio_buffer.append raises: except Exception ends the task
SenderAppendFails ==
  /\ sendPc = "append" /\ ~sendCancel
  /\ sendPc' = "done"
  /\ UNCHANGED << agentVars, dispVars, sendCancel, fetched, expired, audioVars,
                  srvPc, shutdowns, outLog, clientLog >>

\* the CancelledError is thrown into the sender at its await and caught
\* (before the first step the body never runs).  In the queue wait this is
\* the case where the inner task of wait_for has not fetched a frame: when
\* it has, wait_for returns the frame instead (SenderGets).
SenderCancelled ==
  /\ sendCancel
  /\ fetched = << >>
  /\ sendCancel' = FALSE
  /\ expired' = FALSE
  /\ sendPc' = IF sendPc = "start" THEN "cancelled" ELSE "done"
  /\ UNCHANGED << agentVars, dispVars, fetched, audioVars, srvPc, shutdowns,
                  outLog, clientLog >>

(***************************************************************************)
(* Events of the upstream connection                                       *)
(***************************************************************************)
\* type: the ServerEventType; item: event.item.type; the remaining fields
\* are the attributes the code reads ("-" when the event has none).  The
\* tool list of MCP_LIST_TOOLS_COMPLETED is carried as the joined names.
Ev(type, item, name, id, arg) ==
  [type |-> type, item |-> item, name |-> name, id |-> id, arg |-> arg]

CallIds     == {"call_1", "call_2"}
ItemIdOf(callId) == IF callId = "call_1" THEN "item_1" ELSE "item_2"
FnNames     == ToolNames \cup {"get_weather"}
ApprovalIds == {"req_1", "req_2"}

\* conversation.item.created carrying a function_call item
FunctionCallCreated(name, callId) ==
  Ev("CONVERSATION_ITEM_CREATED", "function_call", name, callId, ItemIdOf(callId))
\* conversation.item.created carrying an mcp_approval_request item
ApprovalRequested(reqId) ==
  Ev("CONVERSATION_ITEM_CREATED", "mcp_approval_request", "-", reqId, "-")
ArgumentsDone(callId, raw) ==
  Ev("RESPONSE_FUNCTION_CALL_ARGUMENTS_DONE", "-", "-", callId, raw)
ResponseDone    == Ev("RESPONSE_DONE", "-", "-", "-", "-")
SpeechStartedEv == Ev("INPUT_AUDIO_BUFFER_SPEECH_STARTED", "-", "-", "-", "-")
AudioDelta      == Ev("RESPONSE_AUDIO_DELTA", "-", "-", "-", "pcm-delta")
McpCallCompleted == Ev("RESPONSE_MCP_CALL_COMPLETED", "-", "-", "-", "-")
OutputItemDone(item) ==
  Ev("RESPONSE_OUTPUT_ITEM_DONE", item, "search", "-", "-")

ItemEvents ==
  { FunctionCallCreated(n, c) : n \in FnNames, c \in CallIds }
  \cup { ApprovalRequested(r) : r \in ApprovalIds }
  \cup { Ev("CONVERSATION_ITEM_CREATED", "mcp_call", "search", "docs", "-"),
         Ev("CONVERSATION_ITEM_CREATED", "mcp_list_tools", "-", "-", "-"),
         Ev("CONVERSATION_ITEM_CREATED", "message", "-", "-", "-") }

Events ==
  ItemEvents
  \cup { ArgumentsDone(c, raw) : c \in CallIds, raw \in RawArgsInputs }
  \cup { OutputItemDone(i) : i \in {"mcp_call", "message"} }
  \cup { ResponseDone, SpeechStartedEv, AudioDelta, McpCallCompleted,
         Ev("SESSION_UPDATED", "-", "-", "-", "-"),
         Ev("RESPONSE_AUDIO_TRANSCRIPT_DONE", "-", "-", "-", "hello"),
         Ev("CONVERSATION_ITEM_INPUT_AUDIO_TRANSCRIPTION_COMPLETED", "-", "-", "-", "hi"),
         Ev("MCP_LIST_TOOLS_COMPLETED", "-", "-", "-", "search, fetch"),
         Ev("MCP_LIST_TOOLS_FAILED", "-", "-", "-", "-"),
         Ev("RESPONSE_MCP_CALL_IN_PROGRESS", "-", "-", "-", "-"),
         Ev("RESPONSE_MCP_CALL_FAILED", "-", "-", "-", "-"),
         Ev("ERROR", "-", "-", "-", "boom"),
         Ev("RESPONSE_CREATED", "-", "-", "-", "-") }

(***************************************************************************)
(* VoiceLiveAgent._event_loop and the handlers it drives                   *)
(***************************************************************************)
\* What handling one event in the main loop does up to its first await:
\* the frame handed to the client (client), the call made upstream (up),
\* the await the task then waits in (pc) and the locals of a tool call that
\* begins (name, call_id, item_id).
Effect(client, up, pc, name, callId, itemId) ==
  [client |-> client, up |-> up, pc |-> pc, name |-> name, call_id |-> callId,
   item_id |-> itemId]
Ignore == Effect(<< >>, << >>, "recv", "-", "-", "-")
SendJson(msg) == Effect(<< msg >>, << >>, "send_json", "-", "-", "-")

\* _handle_conversation_item up to its first await
HandleConversationItemDeny(ev) ==
  IF ev.item = "mcp_approval_request"
    THEN Effect(<< >>, << ApprovalResponse(ev.id, FALSE) >>, "approve",
                "-", "-", "-")
    ELSE Ignore

HandleConversationItem(ev) ==
  CASE ev.item = "mcp_call" ->
         SendJson(McpStatus("Calling MCP tool: " \o ev.name \o " on " \o ev.id))
    [] ev.item = "mcp_list_tools" -> Ignore
    [] ev.item = "mcp_approval_request" ->
         Effect(<< >>, << ApprovalResponse(ev.id, TRUE) >>, "approve",
                "-", "-", "-")
    [] ev.item = "function_call" ->
         Effect(<< >>, << >>, "wait_args", ev.name, ev.id, ev.arg)
    [] OTHER -> Ignore

\* the if/elif chain of _event_loop
Dispatch(ev) ==
  CASE ev.type = "SESSION_UPDATED" -> Ignore
    [] ev.type = "INPUT_AUDIO_BUFFER_SPEECH_STARTED" -> SendJson(SpeechStarted)
    [] ev.type = "RESPONSE_AUDIO_DELTA" ->
         Effect(<< Binary(ev.arg) >>, << >>, "send_delta", "-", "-", "-")
    [] ev.type = "RESPONSE_AUDIO_TRANSCRIPT_DONE" ->
         SendJson(Transcript("assistant", ev.arg))
    [] ev.type = "CONVERSATION_ITEM_INPUT_AUDIO_TRANSCRIPTION_COMPLETED" ->
         SendJson(Transcript("user", ev.arg))
    [] ev.type = "CONVERSATION_ITEM_CREATED" -> HandleConversationItem(ev)
    [] ev.type = "MCP_LIST_TOOLS_COMPLETED" ->
         SendJson(McpStatus("MCP tools available: " \o ev.arg))
    [] ev.type = "MCP_LIST_TOOLS_FAILED" ->
         SendJson(McpStatus("MCP server tool discovery failed"))
    [] ev.type = "RESPONSE_MCP_CALL_IN_PROGRESS" -> Ignore
    [] ev.type = "RESPONSE_MCP_CALL_COMPLETED" ->
         Effect(<< >>, << >>, "wait_output", "-", "-", "-")
    [] ev.type = "RESPONSE_MCP_CALL_FAILED" ->
         SendJson(McpStatus("MCP tool call failed"))
    [] ev.type = "ERROR" -> Ignore
    [] OTHER -> Ignore

Step(kind, ev) == [kind |-> kind, ev |-> ev]

\* the read of the connection that is pending while the task waits at pc:
\* the async for of _event_loop, or conn.recv() inside _wait_for_event
ReadAt(pc) ==
  IF pc = "recv" THEN {"loop"}
  ELSE IF pc \in {"wait_args", "wait_resp", "wait_output"} THEN {"wait"}
  ELSE {}

\* a step of the task: the await it was in is over (it returned, raised or
\* was cancelled, and wait_for has cancelled the read it wrapped), and the
\* await it reaches begins
ReadsAfter == (reads \ ReadAt(dispPc)) \cup ReadAt(dispPc')

\* the task's first step: async for event in conn
DispStart ==
  /\ dispPc = "start" /\ ~dispCancel
  /\ dispPc' = "recv"
  /\ lastStep' = Step("start", NoEv)
  /\ UNCHANGED << agentVars, dispCancel, call, nEvents, senderVars, audioVars,
                  srvPc, shutdowns, outLog, clientLog >>
  /\ reads' = ReadsAfter

\* the main loop receives the next event and handles it up to the next await
DispReceivesPrepends ==
  /\ dispPc = "recv" /\ ~dispCancel
  /\ nEvents < MaxEvents
  /\ \E ev \in Events :
        LET e == Dispatch(ev) IN
          /\ clientLog' = e.client \o clientLog
          /\ outLog' = outLog \o e.up
          /\ dispPc' = e.pc
          /\ call' = IF e.pc = "wait_args"
                       THEN [name |-> e.name, call_id |-> e.call_id,
                             item_id |-> e.item_id,
                             arguments |-> [kind |-> "none"],
                             mark |-> Len(outLog)]
                       ELSE NoCall
          /\ lastStep' = Step("loop", ev)
  /\ nEvents' = nEvents + 1
  /\ UNCHANGED << agentVars, dispCancel, senderVars, audioVars, srvPc, shutdowns >>
  /\ reads' = ReadsAfter

DispReceives ==
  /\ dispPc = "recv" /\ ~dispCancel
  /\ nEvents < MaxEvents
  /\ \E ev \in Events :
        LET e == Dispatch(ev) IN
          /\ clientLog' = clientLog \o e.client
          /\ outLog' = outLog \o e.up
          /\ dispPc' = e.pc
          /\ call' = IF e.pc = "wait_args"
                       THEN [name |-> e.name, call_id |-> e.call_id,
                             item_id |-> e.item_id,
                             arguments |-> [kind |-> "none"],
                             mark |-> Len(outLog)]
                       ELSE NoCall
          /\ lastStep' = Step("loop", ev)
  /\ nEvents' = nEvents + 1
  /\ UNCHANGED << agentVars, dispCancel, senderVars, audioVars, srvPc, shutdowns >>
  /\ reads' = ReadsAfter

\* the event stream ends, or reading it raises: the task finishes
DispStreamEnds ==
  /\ dispPc = "recv" /\ ~dispCancel
  /\ dispPc' = "done"
  /\ lastStep' = Step("end", NoEv)
  /\ UNCHANGED << agentVars, dispCancel, call, nEvents, senderVars, audioVars,
                  srvPc, shutdowns, outLog, clientLog >>
  /\ reads' = ReadsAfter

\* a client send awaited by _send_json returns, or raises and is swallowed
DispJsonSent ==
  /\ dispPc = "send_json" /\ ~dispCancel
  /\ dispPc' = "recv"
  /\ \E k \in {"ok", "swallowed"} : lastStep' = Step(k, NoEv)
  /\ UNCHANGED << agentVars, dispCancel, call, nEvents, senderVars, audioVars,
                  srvPc, shutdowns, outLog, clientLog >>
  /\ reads' = ReadsAfter

\* client_ws.send(event.delta) or the approval's item.create returns
DispIoDone ==
  /\ dispPc \in {"send_delta", "approve"} /\ ~dispCancel
  /\ dispPc' = "recv"
  /\ lastStep' = Step("ok", NoEv)
  /\ UNCHANGED << agentVars, dispCancel, call, nEvents, senderVars, audioVars,
                  srvPc, shutdowns, outLog, clientLog >>
  /\ reads' = ReadsAfter

\* client_ws.send(event.delta) or the approval's item.create raises: the
\* exception reaches except Exception of _event_loop and the task finishes
DispIoFails ==
  /\ dispPc \in {"send_delta", "approve"} /\ ~dispCancel
  /\ dispPc' = "done"
  /\ lastStep' = Step("fail", NoEv)
  /\ UNCHANGED << agentVars, dispCancel, call, nEvents, senderVars, audioVars,
                  srvPc, shutdowns, outLog, clientLog >>
  /\ reads' = ReadsAfter

\* _wait_for_event: _next() returns the first event of the wanted type and
\* drops every other event it receives
WaitMatches(ev, eventType) == ev.type = eventType

\* the type each correlation wait is for
Wanted(pc) ==
  CASE pc = "wait_args"   -> "RESPONSE_FUNCTION_CALL_ARGUMENTS_DONE"
    [] pc = "wait_resp"   -> "RESPONSE_DONE"
    [] pc = "wait_output" -> "RESPONSE_OUTPUT_ITEM_DONE"
    [] OTHER              -> "-"

Waits == {"wait_args", "wait_resp", "wait_output"}

\* _wait_for_event receives an event of another type: it is dropped (the
\* inner task of wait_for goes on reading, also while a cancellation of the
\* Dispatcher is pending)
DispWaitDrops ==
  /\ dispPc \in Waits
  /\ nEvents < MaxEvents
  /\ \E ev \in Events :
        /\ ~WaitMatches(ev, Wanted(dispPc))
        /\ lastStep' = Step("dropped", ev)
  /\ nEvents' = nEvents + 1
  /\ UNCHANGED << agentVars, dispPc, dispCancel, call, senderVars, audioVars,
                  srvPc, shutdowns, outLog, clientLog >>
  /\ reads' = ReadsAfter

\* the wait for the arguments-done event returns it: the arguments are
\* parsed; malformed JSON raises and is caught by except Exception
DispArgsDone ==
  /\ dispPc = "wait_args"
  /\ nEvents < MaxEvents
  /\ \E ev \in Events :
        /\ WaitMatches(ev, Wanted("wait_args"))
        /\ lastStep' = Step("matched", ev)
        /\ LET parsed == ParseArguments(ev.arg) IN
              IF parsed.ok
                THEN /\ call' = [call EXCEPT !.arguments = parsed.val]
                     /\ dispPc' = "wait_resp"
                ELSE /\ call' = NoCall
                     /\ dispPc' = "recv"
  /\ nEvents' = nEvents + 1
  /\ UNCHANGED << agentVars, senderVars, audioVars, srvPc, shutdowns, outLog,
                  clientLog >>
  /\ dispCancel' = FALSE
  /\ reads' = ReadsAfter

\* handler = TOOL_HANDLERS.get(function_name) and the call of the handler:
\* the set of possible results [calls, raised, json]
RunHandlerUnknownRaises(name, arguments) ==
  IF name \in ToolNames
    THEN { [calls  |-> << HandlerCall(name, arguments) >>,
            raised |-> o.raised, json |-> o.json]
           : o \in HandlerOutcomes(name, arguments) }
    ELSE { [calls |-> << >>, raised |-> TRUE, json |-> << >>] }

RunHandlerTwice(name, arguments) ==
  IF name \in ToolNames
    THEN { [calls  |-> << HandlerCall(name, arguments), HandlerCall(name, arguments) >>,
            raised |-> o.raised, json |-> o.json]
           : o \in HandlerOutcomes(name, arguments) }
    ELSE { [calls |-> << >>, raised |-> FALSE, json |-> UnknownToolJson(name)] }

RunHandler(name, arguments) ==
  IF name \in ToolNames
    THEN { [calls  |-> << HandlerCall(name, arguments) >>,
            raised |-> o.raised, json |-> o.json]
           : o \in HandlerOutcomes(name, arguments) }
    ELSE { [calls |-> << >>, raised |-> FALSE, json |-> UnknownToolJson(name)] }

\* the wait for response-done returns: the handler is looked up and called,
\* and its result is submitted with conversation.item.create.  A pending
\* cancellation is consumed by wait_for, as in every wait that returns.
DispResponseDone ==
  /\ dispPc = "wait_resp"
  /\ nEvents < MaxEvents
  /\ lastStep' = Step("matched", ResponseDone)
  /\ \E r \in RunHandler(call.name, call.arguments) :
        IF r.raised
          THEN /\ outLog' = outLog \o r.calls
               /\ call' = NoCall
               /\ dispPc' = "recv"
          ELSE /\ outLog' = outLog \o r.calls \o
                     << FunctionCallOutput(call.call_id, call.item_id, r.json) >>
               /\ call' = call
               /\ dispPc' = "submit"
  /\ nEvents' = nEvents + 1
  /\ UNCHANGED << agentVars, senderVars, audioVars, srvPc, shutdowns,
                  clientLog >>
  /\ dispCancel' = FALSE
  /\ reads' = ReadsAfter

\* item.create of the function-call output returns: response.create is called
DispSubmitted ==
  /\ dispPc = "submit" /\ ~dispCancel
  /\ outLog' = Append(outLog, ResponseCreate)
  /\ dispPc' = "respond"
  /\ lastStep' = Step("ok", NoEv)
  /\ UNCHANGED << agentVars, dispCancel, call, nEvents, senderVars, audioVars,
                  srvPc, shutdowns, clientLog >>
  /\ reads' = ReadsAfter

\* the wait for output-item-done returns: an MCP call item is reported to
\* the client first; response.create follows
DispOutputItemDone ==
  /\ dispPc = "wait_output"
  /\ nEvents < MaxEvents
  /\ \E ev \in Events :
        /\ WaitMatches(ev, Wanted("wait_output"))
        /\ lastStep' = Step("matched", ev)
        /\ IF ev.item = "mcp_call"
             THEN /\ clientLog' = Append(clientLog,
                        McpStatus("MCP tool '" \o ev.name \o "' returned a result"))
                  /\ dispPc' = "mcp_send"
                  /\ UNCHANGED outLog
             ELSE /\ outLog' = Append(outLog, ResponseCreate)
                  /\ dispPc' = "respond"
                  /\ UNCHANGED clientLog
  /\ nEvents' = nEvents + 1
  /\ UNCHANGED << agentVars, call, senderVars, audioVars, srvPc, shutdowns >>
  /\ dispCancel' = FALSE
  /\ reads' = ReadsAfter

\* the status send of _handle_mcp_call_completed returns (or its failure is
\* swallowed): response.create is called
DispMcpStatusSent ==
  /\ dispPc = "mcp_send" /\ ~dispCancel
  /\ outLog' = Append(outLog, ResponseCreate)
  /\ dispPc' = "respond"
  /\ \E k \in {"ok", "swallowed"} : lastStep' = Step(k, NoEv)
  /\ UNCHANGED << agentVars, dispCancel, call, nEvents, senderVars, audioVars,
                  srvPc, shutdowns, clientLog >>
  /\ reads' = ReadsAfter

\* an upstream call made by a handler returns, or raises and is caught by
\* the handler's except Exception: back to the main loop
DispHandlerReturns ==
  /\ dispPc \in {"submit", "respond"} /\ ~dispCancel
  /\ \E k \in {"ok", "caught"} :
        /\ dispPc = "submit" => k = "caught"
        /\ lastStep' = Step(k, NoEv)
  /\ dispPc' = "recv"
  /\ call' = NoCall
  /\ UNCHANGED << agentVars, dispCancel, nEvents, senderVars, audioVars, srvPc, shutdowns,
                  outLog, clientLog >>
  /\ reads' = ReadsAfter

\* asyncio.wait_for raises TimeoutError: caught by the handler, which returns
DispWaitTimeoutEndsTask ==
  /\ dispPc \in Waits /\ ~dispCancel
  /\ dispPc' = "done"
  /\ call' = NoCall
  /\ lastStep' = Step("timeout", NoEv)
  /\ UNCHANGED << agentVars, dispCancel, nEvents, senderVars, audioVars, srvPc, shutdowns,
                  outLog, clientLog >>
  /\ reads' = ReadsAfter

DispWaitTimeoutKeepsRead ==
  /\ dispPc \in Waits /\ ~dispCancel
  /\ dispPc' = "recv"
  /\ call' = NoCall
  /\ lastStep' = Step("timeout", NoEv)
  /\ UNCHANGED << agentVars, dispCancel, nEvents, senderVars, audioVars, srvPc,
                  shutdowns, outLog, clientLog >>
  /\ reads' = reads \cup ReadAt("recv")

DispWaitTimeout ==
  /\ dispPc \in Waits /\ ~dispCancel
  /\ dispPc' = "recv"
  /\ call' = NoCall
  /\ lastStep' = Step("timeout", NoEv)
  /\ UNCHANGED << agentVars, dispCancel, nEvents, senderVars, audioVars, srvPc, shutdowns,
                  outLog, clientLog >>
  /\ reads' = ReadsAfter

\* conn.recv() raises inside _wait_for_event: caught by except Exception
\* (wait_for re-raises the inner exception in place of a pending
\* CancelledError)
DispWaitFails ==
  /\ dispPc \in Waits
  /\ dispPc' = "recv"
  /\ call' = NoCall
  /\ lastStep' = Step("caught", NoEv)
  /\ UNCHANGED << agentVars, nEvents, senderVars, audioVars, srvPc, shutdowns,
                  outLog, clientLog >>
  /\ dispCancel' = FALSE
  /\ reads' = ReadsAfter

\* the CancelledError is thrown into the task at its await; no handler
\* catches it before except asyncio.CancelledError of _event_loop.  In a
\* correlation wait this is the case where the inner task of wait_for has
\* not finished.
DispCancelled ==
  /\ dispCancel
  /\ dispCancel' = FALSE
  /\ dispPc' = IF dispPc = "start" THEN "cancelled" ELSE "done"
  /\ call' = NoCall
  /\ lastStep' = Step("cancelled", NoEv)
  /\ UNCHANGED << agentVars, nEvents, senderVars, audioVars, srvPc, shutdowns, outLog,
                  clientLog >>
  /\ reads' = ReadsAfter

(***************************************************************************)
(* The system                                                              *)
(***************************************************************************)
\* The whole system.
Next ==
  \/ RunStart \/ RunConnected \/ RunConnectFails \/ RunSetupDone
  \/ RunSetupFails \/ RunWaitReturns \/ RunClosed \/ RunEndedSent
  \/ RunCancelled
  \/ ServerReceives \/ ServerCleanup
  \/ SenderStart \/ SenderQueueGet \/ SenderGets \/ SenderTimerFires
  \/ SenderTimeout \/ SenderAppended
  \/ SenderAppendFails \/ SenderCancelled
  \/ DispStart \/ DispReceives \/ DispStreamEnds \/ DispJsonSent
  \/ DispIoDone \/ DispIoFails \/ DispWaitDrops \/ DispArgsDone
  \/ DispResponseDone \/ DispSubmitted \/ DispOutputItemDone
  \/ DispMcpStatusSent \/ DispHandlerReturns \/ DispWaitTimeout
  \/ DispWaitFails \/ DispCancelled

Spec == Init /\ [][Next]_vars

\* The two tasks of a session share only the running flag, their
\* cancellation and their completion, so each direction is also checked on
\* its own, against every moment at which the other task can finish.
\*
\* The audio direction: the client offers frames; the upstream delivers no
\* event before its stream ends, which it may do at any moment.
NextAudio ==
  \/ RunStart \/ RunConnected \/ RunConnectFails \/ RunSetupDone
  \/ RunSetupFails \/ RunWaitReturns \/ RunClosed \/ RunEndedSent
  \/ RunCancelled
  \/ ServerReceives \/ ServerCleanup
  \/ SenderStart \/ SenderQueueGet \/ SenderGets \/ SenderTimerFires
  \/ SenderTimeout \/ SenderAppended
  \/ SenderAppendFails \/ SenderCancelled
  \/ DispStart \/ DispStreamEnds \/ DispCancelled

SpecAudio == Init /\ [][NextAudio]_vars

\* The event direction: the upstream delivers events.  Forwarding a frame
\* changes nothing the Dispatcher reads, so the audio direction is reduced to
\* its outcome: the sender stays in its loop for as long as frames keep
\* arriving, until a wait on the empty queue times out or it is cancelled.
NextEvents ==
  \/ RunStart \/ RunConnected \/ RunConnectFails \/ RunSetupDone
  \/ RunSetupFails \/ RunWaitReturns \/ RunClosed \/ RunEndedSent
  \/ RunCancelled
  \/ ServerCleanup
  \/ SenderStart \/ SenderTimerFires \/ SenderTimeout \/ SenderCancelled
  \/ DispStart \/ DispReceives \/ DispStreamEnds \/ DispJsonSent
  \/ DispIoDone \/ DispIoFails \/ DispWaitDrops \/ DispArgsDone
  \/ DispResponseDone \/ DispSubmitted \/ DispOutputItemDone
  \/ DispMcpStatusSent \/ DispHandlerReturns \/ DispWaitTimeout
  \/ DispWaitFails \/ DispCancelled

SpecEvents == Init /\ [][NextEvents]_vars

\* The event direction under the scheduling of the event loop: a finished
\* task wakes asyncio.wait, a cancellation is delivered, and closing the
\* connection returns or raises.
SpecEventsFair ==
  /\ SpecEvents
  /\ WF_vars(RunWaitReturns)
  /\ WF_vars(RunCancelled)
  /\ WF_vars(RunClosed)

\* The same, with the send of the finally block returning or failing.
SpecSessionFair ==
  /\ SpecEventsFair
  /\ WF_vars(RunEndedSent)

\* The event direction with further calls of shutdown().
NextShutdown == NextEvents \/ ShutdownAgain

SpecShutdown == Init /\ [][NextShutdown]_vars

(***************************************************************************)
(* Properties                                                              *)
(***************************************************************************)
\* number of call_state:ended events handed to the client transport
EndedCount == Len(SelectSeq(clientLog, LAMBDA m : m = CallStateEnded))

\* C1: every execution of run() emits exactly one call_state:ended event:
\* none before run() reaches its finally block, one from then on, whatever
\* made run() leave (connect or setup failure, a task finishing, the end of
\* the stream, or cancellation at any await).
C1_ExactlyOneEnded ==
  /\ runPc \in {"init", "connect", "setup", "wait", "close", "never_ran"}
       => EndedCount = 0
  /\ runPc \in {"send_ended", "done"} => EndedCount = 1

\* run() was cancelled inside the session, after the client had been sent
\* other events, and has finished
C1_Witness ==
  /\ runPc = "done"
  /\ srvPc = "closed"
  /\ dispPc = "done"
  /\ Len(clientLog) >= 2
  /\ EndedCount = 1

\* C2: call_state:ended is the last frame handed to the client: once it is
\* in the log nothing follows it, although run() does not wait for the
\* tasks it cancelled.
C2_EndedIsLast ==
  \A i \in 1..Len(clientLog) :
    clientLog[i] = CallStateEnded => i = Len(clientLog)

\* ids of the frames of a sequence of frames or of append calls
Ids(seq) == [i \in 1..Len(seq) |-> seq[i].id]

\* C3: the frames appended to the upstream input buffer are an
\* order-preserving subsequence of the frames send_audio enqueued: ids are
\* strictly increasing (no frame twice, none out of order), every one was
\* accepted, and each carries the base64 text of the bytes offered.
C3_ForwardedInOrder ==
  /\ \A i, j \in 1..Len(audioOut) : i < j => audioOut[i].id < audioOut[j].id
  /\ \A i \in 1..Len(audioOut) :
        /\ \E k \in 1..Len(accepted) : accepted[k] = audioOut[i].id
        /\ audioOut[i].audio \in { <<"T","W","F","u">>, <<"T","W","E","=">>,
                                    <<"T","Q","=","=">> }

\* two frames have been forwarded while a third call is not possible
C3_Witness ==
  /\ Len(audioOut) = 2
  /\ audioOut[1].audio # audioOut[2].audio

\* C4: a timeout of the sender's bounded wait only makes it poll again: the
\* sender leaves its wait for the end of the task only when the running
\* flag is false or it is cancelled.
C4_TimeoutRepolls ==
  [][ (sendPc = "get" /\ sendPc' = "done") => (sendCancel \/ ~running) ]_vars

\* C5 as stated: every frame accepted while the running flag was true has
\* been appended upstream by the time run() has finished and the sender is
\* gone.
C5_AcceptedIsForwarded ==
  (runPc = "done" /\ ~Live(sendPc))
    => \A k \in 1..Len(accepted) :
         \E i \in 1..Len(audioOut) : audioOut[i].id = accepted[k]

\* C5 as amended: a frame accepted while running is never skipped or
\* dropped by the sender; at any moment the accepted frames are exactly the
\* forwarded ones, then the one the waiting sender has taken from the queue
\* and not yet appended (if any), then the queued ones; and once the sender
\* task has ended nothing more is forwarded, whatever is or gets queued.
C5_AcceptedForwardedOrQueued ==
  /\ [](accepted = Ids(audioOut) \o Ids(fetched) \o Ids(queue))
  /\ [][ Finished(sendPc) => (audioOut' = audioOut /\ Finished(sendPc')) ]_vars

\* the session is over with one frame forwarded and a later accepted frame
\* left in the queue
C5_Witness ==
  /\ runPc = "done"
  /\ sendPc = "done"
  /\ Len(audioOut) = 1
  /\ Len(queue) = 1
  /\ Len(accepted) = 2

\* what the coordinator has called since the tool call in progress began
ToolCallOps == SubSeq(outLog, call.mark + 1, Len(outLog))

\* e is the function-call output of the call in progress
IsOutputOfCall(e) ==
  /\ e.op = "item.create"
  /\ e.item = "function_call_output"
  /\ e.call_id = call.call_id
  /\ e.previous_item_id = call.item_id

\* C6: tool round trip.  For a call of a registered tool nothing is called
\* while the coordinator waits; once response-done has followed
\* arguments-done the handler has been invoked exactly once with the parsed
\* arguments and exactly one function-call output, carrying the call's
\* call_id, the item's id and the handler's result, has been submitted; when
\* that submission has returned exactly one response.create has followed, in
\* that order.  (A handler that raises ends the call after its invocation.)
C6_ToolRoundTrip ==
  /\ call.name \in {"get_stock_price", "tell_joke"} =>
       LET ops == ToolCallOps
           invoked ==
             /\ ops[1] = [op |-> "handler", name |-> call.name,
                          arguments |-> call.arguments]
             /\ IsOutputOfCall(ops[2])
             /\ Returned(ops[2].output)
                   \in HandlerOutcomes(call.name, call.arguments)
       IN  /\ dispPc \in {"wait_args", "wait_resp"} => ops = << >>
           /\ dispPc = "submit" => Len(ops) = 2 /\ invoked
           /\ dispPc = "respond" =>
                 Len(ops) = 3 /\ invoked /\ ops[3] = [op |-> "response.create"]
  /\ (lastStep.kind = "matched" /\ lastStep.ev.type = "RESPONSE_DONE") =>
       \/ dispPc = "submit"
       \/ /\ dispPc = "recv"
          /\ outLog[Len(outLog)].op = "handler"
          /\ Raised \in HandlerOutcomes(outLog[Len(outLog)].name,
                                         outLog[Len(outLog)].arguments)

\* the round trip of get_stock_price for {"symbol":"msft"} has completed
C6_Witness ==
  /\ dispPc = "recv"
  /\ lastStep.kind = "ok"
  /\ Len(outLog) = 4
  /\ outLog[2] = [op |-> "handler", name |-> "get_stock_price",
                  arguments |-> [kind |-> "dict", d |-> [symbol |-> "msft"]]]
  /\ outLog[3].op = "item.create"
  /\ outLog[3].call_id = "call_2"
  /\ outLog[3].previous_item_id = "item_2"
  /\ outLog[3].output = << <<"symbol", "MSFT">>, <<"price", "425.3">>,
                           <<"change", "+1.2%">> >>
  /\ outLog[4] = [op |-> "response.create"]

\* the error object submitted for the unknown tool of the call in progress
UnknownToolOutput ==
  [op |-> "item.create", item |-> "function_call_output",
   call_id |-> call.call_id, previous_item_id |-> call.item_id,
   output |-> << <<"error", "Unknown tool: " \o call.name>> >>]

\* C7: unknown tool.  A call whose name is not registered invokes no
\* handler; once arguments-done and response-done have arrived exactly one
\* function-call output carrying the error object that names the tool is
\* submitted, exactly one response.create follows it, and the Dispatcher
\* returns to its loop.
C7_UnknownTool ==
  /\ [](call.name = "get_weather" =>
          /\ dispPc \in {"wait_args", "wait_resp"} => ToolCallOps = << >>
          /\ dispPc = "submit" => ToolCallOps = << UnknownToolOutput >>
          /\ dispPc = "respond" =>
                ToolCallOps = << UnknownToolOutput, [op |-> "response.create"] >>)
  /\ [][ (call.name = "get_weather" /\ dispPc = "wait_resp"
           /\ nEvents' = nEvents + 1 /\ lastStep'.kind = "matched")
          => (dispPc' = "submit" /\ call' = call) ]_vars
  /\ [][ (call.name = "get_weather" /\ dispPc = "respond" /\ dispPc' # dispPc)
          => (outLog' = outLog /\ (dispPc' = "recv" \/ lastStep'.kind = "cancelled")) ]_vars

\* the call of the unknown tool has completed and the Dispatcher is back in
\* its loop with the session running
C7_Witness ==
  /\ dispPc = "recv"
  /\ lastStep.kind = "ok"
  /\ running
  /\ outLog = << SessionUpdate,
                 [op |-> "item.create", item |-> "function_call_output",
                  call_id |-> "call_1", previous_item_id |-> "item_1",
                  output |-> << <<"error", "Unknown tool: get_weather">> >>],
                 [op |-> "response.create"] >>

\* C8: correlator timeout.  When the wait for arguments-done or for
\* response-done times out, the tool call is abandoned: no handler is
\* invoked, nothing is submitted or requested upstream, nothing is sent to
\* the client, the session goes on (run() and the running flag are
\* untouched, the Dispatcher task is not finished) and the Dispatcher is
\* back at the read of its main loop.
C8_TimeoutAbandonsCallOnly ==
  [][ (dispPc \in {"wait_args", "wait_resp"} /\ lastStep'.kind = "timeout")
      => /\ outLog' = outLog
         /\ clientLog' = clientLog
         /\ dispPc' = "recv"
         /\ ~dispCancel'
         /\ running' = running
         /\ runPc' = runPc
         /\ sendPc' = sendPc ]_vars

\* the wait for response-done has just timed out after arguments-done had
\* arrived, the session is running and the main loop can take the next event
C8_Witness ==
  /\ lastStep.kind = "timeout"
  /\ dispPc = "recv"
  /\ nEvents = 2
  /\ running /\ runPc = "wait" /\ ~dispCancel
  /\ outLog = << SessionUpdate >>
  /\ ENABLED DispReceives

\* C9: barge-in.  Every speech-started event the upstream delivers makes
\* the Dispatcher hand exactly one speech_started event to the client and
\* call nothing upstream, also when it is delivered during a correlation
\* wait.
C9_SpeechStartedAlwaysForwarded ==
  [][ (nEvents' = nEvents + 1
       /\ lastStep'.ev.type = "INPUT_AUDIO_BUFFER_SPEECH_STARTED")
      => /\ clientLog' = Append(clientLog, SpeechStarted)
         /\ outLog' = outLog ]_vars

\* C10: approval auto-accept.  Every approval-request item the main loop
\* receives makes it submit exactly one approval response with approve = true
\* and the same approval_request_id; nothing is sent to the client, and when
\* the submission returns the Dispatcher calls nothing more (no
\* response.create).
C10_ApprovalAutoAccept ==
  /\ [][ (nEvents' = nEvents + 1 /\ lastStep'.kind = "loop"
           /\ lastStep'.ev.item = "mcp_approval_request")
          => /\ outLog' = Append(outLog,
                      [op |-> "item.create", item |-> "mcp_approval_response",
                       approval_request_id |-> lastStep'.ev.id,
                       approve |-> TRUE])
             /\ clientLog' = clientLog
             /\ dispPc' = "approve" ]_vars
  /\ [][ (dispPc = "approve" /\ dispPc' # dispPc)
          => (outLog' = outLog /\ clientLog' = clientLog) ]_vars

\* the approval of request req_2 has been submitted and has returned; the
\* client was sent nothing
C10_Witness ==
  /\ dispPc = "recv"
  /\ lastStep.kind = "ok"
  /\ outLog = << SessionUpdate,
                 [op |-> "item.create", item |-> "mcp_approval_response",
                  approval_request_id |-> "req_2", approve |-> TRUE] >>
  /\ clientLog = << >>

\* C11: once shutdown() has been called the audio sender makes no further
\* input_audio_buffer.append call, whatever is still in the queue.
C11_NoAppendAfterShutdown ==
  [][ shutdowns >= 1 => audioOut' = audioOut ]_vars

\* C12: either task finishing ends the session.  asyncio.wait returns only
\* when a task has finished, and run() then cancels the other one; a
\* cancelled task calls nothing more upstream and sends nothing more to the
\* client, and its next step ends it; and once a task has finished run()
\* eventually clears the running flag and emits call_state:ended.
C12_TaskEndEndsSession ==
  /\ [][ (runPc = "wait" /\ runPc' = "close" /\ ~runCancel)
          => /\ Finished(dispPc) \/ Finished(sendPc)
             /\ Live(dispPc) => dispCancel'
             /\ Live(sendPc) => sendCancel' ]_vars
  /\ [][ dispCancel
          => /\ outLog' = outLog
             /\ clientLog' \in {clientLog, Append(clientLog, CallStateEnded)}
             /\ dispPc' # dispPc => Finished(dispPc') ]_vars
  /\ [][ sendCancel
          => /\ audioOut' = audioOut
             /\ sendPc' # sendPc => Finished(sendPc') ]_vars
  /\ (runPc = "wait" /\ (Finished(dispPc) \/ Finished(sendPc)))
        ~> (~running /\ EndedCount = 1)

\* C13: send_audio is a no-op while the running flag is false: the frame is
\* dropped, the queue is left as it was, and no frame offered while the flag
\* was false is ever queued or appended upstream.
C13_SendAudioNoOpWhenStopped ==
  /\ [][ (offered' = offered + 1 /\ ~running)
          => (queue' = queue /\ audioOut' = audioOut) ]_vars
  /\ [](\A i \in 1..Len(queue) :
          \E k \in 1..Len(accepted) : accepted[k] = queue[i].id)
  /\ [](\A i \in 1..Len(audioOut) :
          \E k \in 1..Len(accepted) : accepted[k] = audioOut[i].id)

\* one frame was offered before run() started and one after run() had
\* finished; both were dropped
C13_Witness ==
  /\ runPc = "done"
  /\ srvPc = "serving"
  /\ offered = 2
  /\ accepted = << >>
  /\ queue = << >>
  /\ audioOut = << >>
  /\ EndedCount = 1

\* C14: shutdown() is idempotent and safe to interleave with the cleanup of
\* run().  Every call leaves the flag false and every task that has not
\* finished with its cancellation requested.  A further call leaves the
\* tasks as a call leaves them: no task and not run() moves, a finished
\* task is not touched, nothing is sent or called; the only thing it can
\* do is request again the cancellation of a task that is still alive.
\* After any call the flag stays false; and whenever the calls happen, also
\* during or after the finally block of run(), run() emits
\* call_state:ended exactly once.
C14_ShutdownIdempotent ==
  /\ [][ shutdowns' = shutdowns + 1
          => /\ running' = FALSE
             /\ Live(dispPc') => dispCancel'
             /\ Live(sendPc') => sendCancel' ]_vars
  /\ [][ (shutdowns >= 1 /\ shutdowns' = shutdowns + 1)
          => /\ UNCHANGED << running, dispPc, sendPc, fetched, expired, call,
                             runPc, runCancel, queue, outLog, audioOut,
                             clientLog >>
             /\ ~Live(dispPc) => dispCancel' = dispCancel
             /\ ~Live(sendPc) => sendCancel' = sendCancel ]_vars
  /\ [](shutdowns >= 1 => ~running)
  /\ [](EndedCount = IF runPc \in {"send_ended", "done"} THEN 1 ELSE 0)

\* shutdown() was called twice while run() was in the await of its finally
\* block, after both tasks had ended
C14_Witness ==
  /\ shutdowns = 2
  /\ runPc = "send_ended"
  /\ dispPc = "done"
  /\ sendPc = "done"
  /\ ~dispCancel /\ ~sendCancel
  /\ EndedCount = 1

\* C15: a failure of the upstream call made while handling one event (the
\* approval response, the function-call output, or response.create) never
\* unwinds the Dispatcher loop: the Dispatcher is back at the read of its
\* main loop and the session goes on.
C15_UpstreamWriteFailureKeepsLoop ==
  [][ (dispPc \in {"approve", "submit", "respond"}
       /\ lastStep'.kind \in {"fail", "caught"})
      => /\ dispPc' = "recv"
         /\ runPc' = runPc
         /\ running' = running ]_vars

\* C16: a failed send to the client, of a JSON event or of an audio delta,
\* is swallowed: nothing is sent again, the Dispatcher goes on (to the read
\* of its main loop, or to the next call of the handler it is in) and the
\* session does not end.
C16_ClientSendFailureSwallowed ==
  [][ (dispPc \in {"send_json", "send_delta", "mcp_send"}
       /\ lastStep'.kind \in {"swallowed", "fail"})
      => /\ dispPc' \in {"recv", "respond"}
         /\ clientLog' = clientLog
         /\ runPc' = runPc
         /\ running' = running ]_vars

\* C17: no event is lost to the Correlator: every function-call item the
\* upstream announces is handled by the dispatch handler, which starts that
\* call's wait for its arguments, also when the item is announced while an
\* earlier call is still waiting.
C17_NoFunctionCallLost ==
  [][ (nEvents' = nEvents + 1
       /\ lastStep'.ev.type = "CONVERSATION_ITEM_CREATED"
       /\ lastStep'.ev.item = "function_call")
      => /\ lastStep'.kind = "loop"
         /\ dispPc' = "wait_args"
         /\ call'.call_id = lastStep'.ev.id ]_vars

\* C18: a tool call takes its arguments from its own arguments-done event:
\* the arguments-done event that ends the wait of a call carries the call_id
\* of the item-created event that started the call.
C18_ArgumentsOfOwnCall ==
  [][ (dispPc = "wait_args" /\ nEvents' = nEvents + 1
       /\ lastStep'.kind = "matched")
      => lastStep'.ev.id = call.call_id ]_vars

\* C19: every remote-tool call-completed event the main loop receives leads
\* to exactly one response.create and nothing else upstream, whether the
\* output-item-done event arrives or the wait for it times out.
C19_McpCompletedRequestsResponse ==
  [][ (call.name = "-" /\ dispPc \in {"wait_output", "mcp_send"}
       /\ dispPc' # dispPc
       /\ lastStep'.kind \in {"matched", "timeout", "ok", "swallowed"})
      => \/ dispPc' = "mcp_send" /\ outLog' = outLog
         \/ dispPc' = "respond" /\ outLog' = Append(outLog, ResponseCreate) ]_vars

\* C20: tool output is never submitted while the response that requested
\* it is still being generated.  A function-call output is submitted only
\* in the step in which the wait for response-done returns a response-done
\* event; that wait is entered only in the step in which the call's wait for
\* arguments-done has returned that call's arguments-done event (the one
\* carrying the call's call_id); and the response.create of a tool call is
\* called only after that call's output has been submitted.
C20_OutputAfterResponseDone ==
  /\ [][ (\E i \in (Len(outLog) + 1)..Len(outLog') :
             /\ outLog'[i].op = "item.create"
             /\ outLog'[i].item = "function_call_output")
          => /\ dispPc = "wait_resp"
             /\ nEvents' = nEvents + 1
             /\ lastStep'.kind = "matched"
             /\ lastStep'.ev.type = "RESPONSE_DONE" ]_vars
  /\ [][ (dispPc' = "wait_resp" /\ dispPc # "wait_resp")
          => /\ dispPc = "wait_args"
             /\ nEvents' = nEvents + 1
             /\ lastStep'.kind = "matched"
             /\ lastStep'.ev.type = "RESPONSE_FUNCTION_CALL_ARGUMENTS_DONE"
             /\ lastStep'.ev.id = call.call_id ]_vars
  /\ [][ (call.name # "-" /\ Len(outLog') > Len(outLog)
           /\ outLog'[Len(outLog')].op = "response.create")
          => /\ dispPc = "submit"
             /\ outLog[Len(outLog)].op = "item.create"
             /\ outLog[Len(outLog)].item = "function_call_output"
             /\ outLog[Len(outLog)].call_id = call.call_id ]_vars

\* C21: the upstream event stream has at most one reader at a time: the
\* read of the Dispatcher loop and a read of the Correlator are never both
\* pending, and after a Correlator timeout only the loop's read is pending.
C21_SingleReader ==
  /\ [](Cardinality(reads) <= 1)
  /\ [][ lastStep'.kind = "timeout" => reads' = {"loop"} ]_vars

\* the wait for response-done has timed out and the main loop reads again
C21_Witness ==
  /\ lastStep.kind = "timeout"
  /\ nEvents = 2
  /\ dispPc = "recv"
  /\ reads = {"loop"}
  /\ call = NoCall
  /\ running

\* C22: malformed tool arguments abandon only that tool call: when the
\* arguments-done payload is a string that is not valid JSON, no handler is
\* invoked, nothing is submitted or requested upstream, nothing is sent to
\* the client, and the Dispatcher is back at the read of its main loop with
\* the session running.
C22_MalformedArgumentsAbandonCall ==
  [][ (dispPc = "wait_args" /\ nEvents' = nEvents + 1
       /\ lastStep'.kind = "matched"
       /\ lastStep'.ev.arg = "{\"symbol\":")
      => /\ outLog' = outLog
         /\ clientLog' = clientLog
         /\ dispPc' = "recv"
         /\ call' = NoCall
         /\ ~dispCancel'
         /\ running' = running
         /\ runPc' = runPc
         /\ sendPc' = sendPc ]_vars

\* a call's arguments-done event carried a truncated JSON text; the call is
\* gone, nothing was called, and the main loop can take the next event
C22_Witness ==
  /\ lastStep.kind = "matched"
  /\ lastStep.ev.arg = "{\"symbol\":"
  /\ dispPc = "recv"
  /\ call = NoCall
  /\ running /\ runPc = "wait"
  /\ outLog = << SessionUpdate >>
  /\ clientLog = << >>
  /\ ENABLED DispReceives

\* C23: a shutdown before run() has created its two tasks stops the
\* session.  When audio_ws has called shutdown() and the tasks do not exist,
\* the running flag is false, the Dispatcher has processed no upstream event
\* and the client has been sent nothing except call_state:ended; the tasks
\* are never created afterwards; and run() terminates.
C23_EarlyShutdownStopsSession ==
  /\ []((srvPc = "closed" /\ dispPc = "none")
          => /\ ~running
             /\ nEvents = 0
             /\ clientLog \in { << >>, << CallStateEnded >> })
  /\ [][ (srvPc = "closed" /\ dispPc = "none")
          => (dispPc' = "none" /\ sendPc' = "none") ]_vars
  /\ (srvPc = "closed" /\ dispPc = "none")
        ~> (runPc \in {"done", "never_ran"})

\* shutdown() was called while run() awaited session.update; run() has
\* ended without creating its tasks, and the client was sent only
\* call_state:ended
C23_Witness ==
  /\ srvPc = "closed"
  /\ runPc = "done"
  /\ dispPc = "none"
  /\ sendPc = "none"
  /\ outLog = << SessionUpdate >>
  /\ clientLog = << CallStateEnded >>
  /\ ~running

\* the client frames one step of the Dispatcher owes to the upstream event
\* it received in that step
CausedBy(step) ==
  LET ev == step.ev IN
  IF step.kind = "loop" THEN
    CASE ev.type = "INPUT_AUDIO_BUFFER_SPEECH_STARTED" -> << SpeechStarted >>
      [] ev.type = "RESPONSE_AUDIO_DELTA" -> << Binary(ev.arg) >>
      [] ev.type = "RESPONSE_AUDIO_TRANSCRIPT_DONE" ->
           << Transcript("assistant", ev.arg) >>
      [] ev.type = "CONVERSATION_ITEM_INPUT_AUDIO_TRANSCRIPTION_COMPLETED" ->
           << Transcript("user", ev.arg) >>
      [] ev.type = "MCP_LIST_TOOLS_COMPLETED" ->
           << McpStatus("MCP tools available: " \o ev.arg) >>
      [] ev.type = "MCP_LIST_TOOLS_FAILED" ->
           << McpStatus("MCP server tool discovery failed") >>
      [] ev.type = "RESPONSE_MCP_CALL_FAILED" ->
           << McpStatus("MCP tool call failed") >>
      [] ev.type = "CONVERSATION_ITEM_CREATED" /\ ev.item = "mcp_call" ->
           << McpStatus("Calling MCP tool: " \o ev.name \o " on " \o ev.id) >>
      [] OTHER -> << >>
  ELSE IF /\ step.kind = "matched"
          /\ ev.type = "RESPONSE_OUTPUT_ITEM_DONE"
          /\ ev.item = "mcp_call"
    THEN << McpStatus("MCP tool '" \o ev.name \o "' returned a result") >>
  ELSE << >>

\* C24: downstream order is preserved.  The client log only grows at its
\* end; a step in which the upstream delivers an event appends exactly the
\* frame that event causes (or nothing), once, in that same step, and a step
\* that delivers no event appends nothing but call_state:ended.  So the
\* frames are on the client transport in the order of the events that
\* caused them, none twice.
C24_DownstreamOrderPreserved ==
  [][ /\ nEvents' = nEvents + 1 => clientLog' = clientLog \o CausedBy(lastStep')
      /\ nEvents' = nEvents
           => clientLog' \in {clientLog, Append(clientLog, CallStateEnded)} ]_vars

\* a user transcript, an audio delta and a speech-started event have been
\* delivered in this order and forwarded in this order
C24_Witness ==
  /\ nEvents = 3
  /\ clientLog = << Transcript("user", "hi"), Binary("pcm-delta"),
                    SpeechStarted >>

====
